---- MODULE Spec2Model ----
(***************************************************************************)
(* Model of src/context.py: CodeContextExtractor, the extraction loop of   *)
(* extract_context, the recognizers that fill the Project Index, and the   *)
(* hand-over to generate_output.                                           *)
(*                                                                         *)
(* A source file is abstracted to what the recognizers' regular            *)
(* expressions match in it (its "body"): declared components, hooks,       *)
(* interfaces, imports, classes, routes, tables, and the tokens counted by *)
(* the complexity score.  Relative paths are ranks 1..n: the order of the  *)
(* ranks is the lexicographic order of the paths.                          *)
(***************************************************************************)
EXTENDS Integers, Sequences, FiniteSets, TLC

\* ---------------------------------------------------------------- bounds
MaxFiles == 3

\* values of config["max_lines"] tried (src/context.py:41 sets the default;
\* main() overwrites it with any integer given on the command line)
MaxLinesChoices == {-1, 0, 10, 40}

\* ------------------------------------------------------------ file bodies
NoBody ==
  [ imports |-> <<>>, components |-> <<>>, hook_tokens |-> <<>>,
    api_tokens |-> <<>>, cond_markers |-> 0, perf_issues |-> <<>>,
    rn_issues |-> <<>>, hooks_declared |-> <<>>, interfaces |-> <<>>,
    classes |-> <<>>, service_path |-> FALSE, routes |-> <<>>,
    nav_path |-> FALSE, tables |-> <<>>, tags |-> {},
    state_patterns |-> <<>>, json |-> "none", json_keys |-> <<>> ]

\* Alpha.tsx: import { Child } from './Child'; const Alpha = (props) => {
\* useState; ten "if (" markers; return (<Child onPress={() => go()}
\* style={{..}}>) }
BodyAlpha ==
  [ NoBody EXCEPT
      !.imports = << [kind |-> "named", names |-> <<"Child">>, module |-> "./Child"] >>,
      !.components = << [name |-> "Alpha", props |-> <<>>] >>,
      !.hook_tokens = << "useState" >>,
      !.cond_markers = 10,
      !.perf_issues = << "inline functions" >>,
      !.rn_issues = << "inline styles" >>,
      !.tags = {"Child"} ]

\* Beta.tsx: const ThemeContext = createContext(null);
\* const Beta = (props) => { return (<div/>) }
BodyBeta ==
  [ NoBody EXCEPT
      !.components = << [name |-> "Beta", props |-> <<>>] >>,
      !.state_patterns = << [type |-> "context", name |-> "ThemeContext"] >> ]

\* services/navigation.ts: import Foo from 'foo'; function useThing() {..};
\* interface Props { a: string; }; class ApiService { load() { fetch('/api/x') } };
\* a <Stack.Screen name="Home" component={Home}>; a CREATE TABLE Users
BodyModule ==
  [ NoBody EXCEPT
      !.imports = << [kind |-> "default", names |-> <<"Foo">>, module |-> "foo"] >>,
      !.hooks_declared = << "useThing" >>,
      !.api_tokens = << "fetch(" >>,
      !.interfaces = << [name |-> "Props", parent |-> "None",
                         properties |-> << [name |-> "a", type |-> "string"] >>] >>,
      !.classes = << [name |-> "ApiService", methods |-> << "load" >>,
                      api_endpoints |-> << "/api/x" >>] >>,
      !.service_path = TRUE,
      !.routes = << [name |-> "Home", component |-> "Home"] >>,
      !.nav_path = TRUE,
      !.tables = << "Users" >> ]

BodyJsonDict == [ NoBody EXCEPT !.json = "dict", !.json_keys = << "k" >> ]
BodyJsonList == [ NoBody EXCEPT !.json = "list" ]
BodyJsonBad  == [ NoBody EXCEPT !.json = "malformed" ]

\* Gamma.tsx: const Gamma = (props) => { useState; useEffect; useMemo;
\* api.load(a); api.save(a); one "if (" marker; return (<View/>) }
BodyScore6 ==
  [ NoBody EXCEPT
      !.components = << [name |-> "Gamma", props |-> <<>>] >>,
      !.hook_tokens = << "useState", "useEffect", "useMemo" >>,
      !.api_tokens = << "api.load(", "api.save(" >>,
      !.cond_markers = 1 ]

\* the same declaration with five more "if (" markers
BodyScore11 == [ BodyScore6 EXCEPT !.cond_markers = 6 ]

\* the same declaration calling useState a second time, with five markers
BodyRepeat ==
  [ BodyScore6 EXCEPT
      !.hook_tokens = << "useState", "useEffect", "useMemo", "useState" >>,
      !.cond_markers = 5 ]

SourceContents == {"plain", "alpha", "beta", "module"}

\* the synthetic declarations of the scoring examples
DeclContents == {"score6", "score11", "repeat"}
JsonContents == {"dict", "list", "malformed"}

Body(content) ==
  CASE content = "alpha"     -> BodyAlpha
    [] content = "beta"      -> BodyBeta
    [] content = "module"    -> BodyModule
    [] content = "dict"      -> BodyJsonDict
    [] content = "list"      -> BodyJsonList
    [] content = "malformed" -> BodyJsonBad
    [] content = "score6"    -> BodyScore6
    [] content = "score11"   -> BodyScore11
    [] content = "repeat"    -> BodyRepeat
    [] OTHER                 -> NoBody

\* the kinds of file collect_files can hand over: a readable source file, a
\* readable .json file, or a file of either extension that open() rejects
FileKinds ==
  { [ext |-> "tsx", readable |-> TRUE, content |-> c] : c \in SourceContents }
  \cup { [ext |-> "json", readable |-> TRUE, content |-> c] : c \in JsonContents }
  \cup { [ext |-> "tsx", readable |-> FALSE, content |-> "plain"],
         [ext |-> "json", readable |-> FALSE, content |-> "dict"] }

\* ----------------------------------------------------------- small helpers
RECURSIVE SeqSum(_)
SeqSum(s) == IF s = <<>> THEN 0 ELSE Head(s) + SeqSum(Tail(s))

RECURSIVE Flatten(_)
Flatten(ss) == IF ss = <<>> THEN <<>> ELSE Head(ss) \o Flatten(Tail(ss))

Range(s) == { s[i] : i \in DOMAIN s }

\* d[k] = v on a dict held as a function: a new key is added, an old key's
\* value is replaced
DictSet(d, k, v) == [ n \in (DOMAIN d) \cup {k} |-> IF n = k THEN v ELSE d[n] ]

\* defaultdict(set)[k].add(..)
DictAddAll(d, k, vs) ==
  [ n \in (DOMAIN d) \cup {k} |->
      IF n = k THEN (IF k \in DOMAIN d THEN d[k] ELSE {}) \cup vs ELSE d[n] ]

\* ------------------------------------------------------- the Project Index
\* CodeContextExtractor.__init__: every collection starts empty
EmptyIndex ==
  [ component_props |-> <<>>, hooks |-> <<>>, services |-> <<>>,
    api_endpoints |-> <<>>, interfaces |-> <<>>, state_management |-> <<>>,
    navigation_routes |-> <<>>, hook_usages |-> <<>>, api_calls |-> <<>>,
    component_complexity |-> <<>>, performance_issues |-> <<>>,
    react_native_issues |-> <<>>, database_schemas |-> <<>>,
    import_dependencies |-> <<>>, complex_types |-> <<>>,
    enhanced_api_endpoints |-> <<>>, hook_usages_analysis |-> <<>>,
    enhanced_navigation |-> <<>> ]

\* the collections of the index that are lists of facts
GlobalLists ==
  { "hooks", "services", "api_endpoints", "state_management",
    "navigation_routes", "component_complexity", "performance_issues",
    "react_native_issues", "database_schemas", "import_dependencies",
    "complex_types", "enhanced_api_endpoints", "hook_usages_analysis",
    "enhanced_navigation" }

\* the collections of the index that are dicts keyed by a declaration name
GlobalDicts == { "component_props", "interfaces", "hook_usages", "api_calls" }

\* ------------------------------------------------------------ recognizers
\* Every recognizer takes the index and returns [ret, ix]: the value the
\* method returns and the index as the method leaves it.

\* complexity = len(hook_usages) + len(api_calls) + count('if (') + count('? ')
Complexity(body) ==
  Len(body.hook_tokens) + Len(body.api_tokens) + body.cond_markers

ComplexityThreshold == 10

\* whether a component goes to self.component_complexity
IsComplex(complexity) == complexity > ComplexityThreshold

\* performance_issues / react_native_issues of a component: found only when
\* the matching switch of the configuration is on
PerformanceIssues(body, config) ==
  IF config.analyze_performance THEN body.perf_issues ELSE <<>>

ReactNativeIssues(body, config) ==
  IF config.analyze_react_native THEN body.rn_issues ELSE <<>>

\* component_data of one match
ComponentData(body, file_path, config, comp) ==
  [ name |-> comp.name, type |-> "functional",
    file_path |-> file_path, props |-> comp.props,
    hooks_used |-> body.hook_tokens, api_calls |-> body.api_tokens,
    complexity |-> Complexity(body),
    performance_issues |-> PerformanceIssues(body, config),
    react_native_issues |-> ReactNativeIssues(body, config) ]

\* self.hook_usages[component_name].update(hook_usages)
StoreHookUsages(ix, body, comp) ==
  IF body.hook_tokens = <<>> THEN ix
  ELSE [ix EXCEPT !.hook_usages = DictAddAll(@, comp.name, Range(body.hook_tokens))]

\* self.api_calls[component_name].update(api_calls)
StoreApiCalls(ix, body, comp) ==
  IF body.api_tokens = <<>> THEN ix
  ELSE [ix EXCEPT !.api_calls = DictAddAll(@, comp.name, Range(body.api_tokens))]

\* self.performance_issues.append(..)
StorePerformanceIssues(ix, body, file_path, config, comp) ==
  IF PerformanceIssues(body, config) = <<>> THEN ix
  ELSE [ix EXCEPT !.performance_issues =
           Append(@, [component |-> comp.name, file_path |-> file_path,
                      issues |-> PerformanceIssues(body, config)])]

\* self.react_native_issues.append(..)
StoreReactNativeIssues(ix, body, file_path, config, comp) ==
  IF ReactNativeIssues(body, config) = <<>> THEN ix
  ELSE [ix EXCEPT !.react_native_issues =
           Append(@, [component |-> comp.name, file_path |-> file_path,
                      issues |-> ReactNativeIssues(body, config)])]

\* self.component_complexity.append(..) for a component above the threshold
StoreComplexity(ix, body, file_path, comp) ==
  IF IsComplex(Complexity(body))
  THEN [ix EXCEPT !.component_complexity =
           Append(@, [name |-> comp.name, file_path |-> file_path,
                      complexity |-> Complexity(body)])]
  ELSE ix

\* self.component_props[component_name] = props
StoreProps(ix, comp) ==
  [ix EXCEPT !.component_props = DictSet(@, comp.name, comp.props)]

\* one iteration of the "for match in func_matches" loop: the stores happen
\* in the order of the source
ComponentStep(ix, body, file_path, config, comp) ==
  [ data |-> ComponentData(body, file_path, config, comp),
    ix |-> StoreProps(
             StoreComplexity(
               StoreReactNativeIssues(
                 StorePerformanceIssues(
                   StoreApiCalls(StoreHookUsages(ix, body, comp), body, comp),
                   body, file_path, config, comp),
                 body, file_path, config, comp),
               body, file_path, comp),
             comp) ]

RECURSIVE ComponentLoop(_, _, _, _, _, _)
ComponentLoop(ix, body, file_path, config, todo, done) ==
  IF todo = <<>> THEN [ ret |-> done, ix |-> ix ]
  ELSE LET r == ComponentStep(ix, body, file_path, config, Head(todo))
       IN  ComponentLoop(r.ix, body, file_path, config, Tail(todo),
                         Append(done, r.data))

extract_react_component(ix, body, file_path, config) ==
  ComponentLoop(ix, body, file_path, config, body.components, <<>>)

\* extract_hooks handing back the list kept on the extractor (self.hooks)
\* instead of its local list
extract_hooks_ReturnsStored(ix, body, file_path) ==
  LET fact(h) == [ name |-> h, file_path |-> file_path, params |-> <<>>,
                   returns |-> <<>>,
                   uses_hooks |-> SelectSeq(body.hook_tokens, LAMBDA t : t # h),
                   api_calls |-> body.api_tokens ]
      facts == [ i \in DOMAIN body.hooks_declared |-> fact(body.hooks_declared[i]) ]
  IN  [ ret |-> ix.hooks \o facts, ix |-> [ix EXCEPT !.hooks = @ \o facts] ]

extract_hooks(ix, body, file_path) ==
  LET fact(h) == [ name |-> h, file_path |-> file_path, params |-> <<>>,
                   returns |-> <<>>,
                   uses_hooks |-> SelectSeq(body.hook_tokens, LAMBDA t : t # h),
                   api_calls |-> body.api_tokens ]
      facts == [ i \in DOMAIN body.hooks_declared |-> fact(body.hooks_declared[i]) ]
  IN  [ ret |-> facts, ix |-> [ix EXCEPT !.hooks = @ \o facts] ]

extract_services(ix, body, file_path) ==
  IF ~body.service_path THEN [ ret |-> <<>>, ix |-> ix ]
  ELSE
    LET fact(c) == [ name |-> c.name, file_path |-> file_path,
                     parent_class |-> "None", is_singleton |-> FALSE,
                     methods |-> c.methods, api_endpoints |-> c.api_endpoints ]
        facts == [ i \in DOMAIN body.classes |-> fact(body.classes[i]) ]
        eps(c) == [ j \in DOMAIN c.api_endpoints |->
                      [ endpoint |-> c.api_endpoints[j], service |-> c.name,
                        file_path |-> file_path ] ]
        allEps == Flatten([ i \in DOMAIN body.classes |-> eps(body.classes[i]) ])
    IN  [ ret |-> facts,
          ix |-> [ix EXCEPT !.services = @ \o facts,
                            !.api_endpoints = @ \o allEps] ]

RECURSIVE InterfaceLoop(_, _, _)
InterfaceLoop(dict, todo, file_path) ==
  IF todo = <<>> THEN dict
  ELSE InterfaceLoop(
         DictSet(dict, Head(todo).name,
                 [ file_path |-> file_path, parent |-> Head(todo).parent,
                   properties |-> Head(todo).properties ]),
         Tail(todo), file_path)

extract_types(ix, body, file_path) ==
  LET fact(d) == [ name |-> d.name, file_path |-> file_path,
                   parent |-> d.parent, properties |-> d.properties ]
      facts == [ i \in DOMAIN body.interfaces |-> fact(body.interfaces[i]) ]
  IN  [ ret |-> [ interfaces |-> facts, types |-> <<>>, enums |-> <<>> ],
        ix |-> [ix EXCEPT !.interfaces =
                   InterfaceLoop(@, body.interfaces, file_path)] ]

extract_navigation(ix, body, file_path) ==
  IF ~body.nav_path THEN [ ret |-> <<>>, ix |-> ix ]
  ELSE
    LET routes == [ i \in DOMAIN body.routes |->
                      [ name |-> body.routes[i].name,
                        component |-> body.routes[i].component,
                        file_path |-> file_path ] ]
    IN  [ ret |-> routes,
          ix |-> [ix EXCEPT !.navigation_routes = @ \o routes] ]

extract_state_management(ix, body, file_path) ==
  LET pats == [ i \in DOMAIN body.state_patterns |->
                  [ type |-> body.state_patterns[i].type,
                    name |-> body.state_patterns[i].name,
                    file_path |-> file_path ] ]
  IN  [ ret |-> pats, ix |-> [ix EXCEPT !.state_management = @ \o pats] ]

\* ------------------------------------------------------ per-file aggregator
NoInfo ==
  [ components |-> <<>>, hooks |-> <<>>, services |-> <<>>,
    types |-> [ interfaces |-> <<>>, types |-> <<>>, enums |-> <<>> ],
    navigation |-> <<>>, state_management |-> <<>>, imports |-> <<>>,
    error |-> FALSE ]

\* file_info[key] = what a recognizer returned; the index goes on as the
\* recognizer left it
Gathered(acc, key, r) ==
  [ ret |-> [acc.ret EXCEPT ![key] = r.ret], ix |-> r.ix ]

GatherComponents(acc, body, file_path, config) ==
  Gathered(acc, "components", extract_react_component(acc.ix, body, file_path, config))

GatherHooks(acc, body, file_path) ==
  Gathered(acc, "hooks", extract_hooks(acc.ix, body, file_path))

GatherServices(acc, body, file_path) ==
  Gathered(acc, "services", extract_services(acc.ix, body, file_path))

GatherTypes(acc, body, file_path) ==
  Gathered(acc, "types", extract_types(acc.ix, body, file_path))

GatherNavigation(acc, body, file_path) ==
  Gathered(acc, "navigation", extract_navigation(acc.ix, body, file_path))

GatherStateManagement(acc, body, file_path) ==
  Gathered(acc, "state_management", extract_state_management(acc.ix, body, file_path))

\* imports = re.findall(import_pattern, content)
FileImports(body) ==
  [ i \in DOMAIN body.imports |->
      [ module |-> body.imports[i].module, imports |-> body.imports[i].names ] ]

\* process_tsx_file: a failing open() is caught and turned into {'error': ..};
\* otherwise the six recognizers run in the order of the source
process_tsx_file(ix, f, config) ==
  IF ~f.readable THEN [ ret |-> [NoInfo EXCEPT !.error = TRUE], ix |-> ix ]
  ELSE
    GatherStateManagement(
      GatherNavigation(
        GatherTypes(
          GatherServices(
            GatherHooks(
              GatherComponents(
                [ ret |-> [NoInfo EXCEPT !.imports = FileImports(Body(f.content))],
                  ix |-> ix ],
                Body(f.content), f.rel_path, config),
              Body(f.content), f.rel_path),
            Body(f.content), f.rel_path),
          Body(f.content), f.rel_path),
        Body(f.content), f.rel_path),
      Body(f.content), f.rel_path)

extract_database_schema(body, file_path) ==
  [ i \in DOMAIN body.tables |->
      [ table_name |-> body.tables[i], file_path |-> file_path ] ]

\* named imports first, then default imports: one fact per imported name,
\* made of type, name and source
extract_import_dependencies(body, file_path) ==
  LET deps(kind) ==
        Flatten([ i \in DOMAIN body.imports |->
                    IF body.imports[i].kind = kind
                    THEN [ j \in DOMAIN body.imports[i].names |->
                             [ type |-> kind, name |-> body.imports[i].names[j],
                               source |-> body.imports[i].module ] ]
                    ELSE <<>> ])
  IN  deps("named") \o deps("default")

extract_complex_types(body, file_path) ==
  [ i \in DOMAIN body.interfaces |->
      [ name |-> body.interfaces[i].name, extends |-> body.interfaces[i].parent,
        properties |-> body.interfaces[i].properties, file_path |-> file_path ] ]

extract_api_endpoints(body, file_path) ==
  Flatten([ i \in DOMAIN body.classes |->
              [ j \in DOMAIN body.classes[i].api_endpoints |->
                  [ endpoint |-> body.classes[i].api_endpoints[j],
                    method |-> "GET", file_path |-> file_path ] ] ])

analyze_hook_usage(body, file_path) ==
  [ i \in DOMAIN body.hooks_declared |->
      [ name |-> body.hooks_declared[i], file_path |-> file_path ] ]

extract_navigation_routes(body, file_path) ==
  [ i \in DOMAIN body.routes |->
      [ type |-> "Stack", name |-> body.routes[i].name, file_path |-> file_path ] ]

\* the second half of process_file: its own try/except swallows a failing open()
EnhancedAnalysis(ix, f) ==
  IF ~f.readable THEN ix
  ELSE
    LET body == Body(f.content)
        ix1 == [ix EXCEPT !.database_schemas =
                   @ \o extract_database_schema(body, f.rel_path)]
    IN  IF f.ext # "tsx" THEN ix1
        ELSE [ix1 EXCEPT
                !.import_dependencies =
                   @ \o extract_import_dependencies(body, f.rel_path),
                !.complex_types = @ \o extract_complex_types(body, f.rel_path),
                !.enhanced_api_endpoints =
                   @ \o extract_api_endpoints(body, f.rel_path),
                !.hook_usages_analysis = @ \o analyze_hook_usage(body, f.rel_path),
                !.enhanced_navigation =
                   @ \o extract_navigation_routes(body, f.rel_path)]

\* the file_info of the first half, the index after the second half
Enhanced(r, f) ==
  [ raised |-> FALSE, ret |-> r.ret, ix |-> EnhancedAnalysis(r.ix, f) ]

\* process_file returns [raised, ret, ix].  For a .json file only
\* json.JSONDecodeError is caught: a failing open() leaves the method.
process_file(ix, f, config) ==
  IF f.ext = "json"
  THEN IF ~f.readable
       THEN [ raised |-> TRUE, ret |-> NoInfo, ix |-> ix ]
       ELSE [ raised |-> FALSE,
              ret |-> [NoInfo EXCEPT !.error = (Body(f.content).json = "malformed")],
              ix |-> EnhancedAnalysis(ix, f) ]
  ELSE Enhanced(process_tsx_file(ix, f, config), f)

\* ---------------------------------------------------------- file summaries
\* an optional sub-list: a header line and one line per item
Section(header, items) ==
  IF items = <<>> THEN <<>>
  ELSE <<header>> \o [ i \in DOMAIN items |-> "    - item" ]

format_component_info(c) ==
  << "Component:" >> \o Section("  Props:", c.props)
    \o Section("  Hooks used:", c.hooks_used)
    \o Section("  API calls:", c.api_calls)
    \o Section("  Performance issues:", c.performance_issues)
    \o Section("  React Native issues:", c.react_native_issues)

format_hook_info(h) ==
  << "Hook:" >> \o Section("  Parameters:", h.params)
    \o Section("  Returns:", h.returns)
    \o Section("  Uses hooks:", h.uses_hooks)
    \o Section("  API calls:", h.api_calls)

format_service_info(sv) ==
  << "Service:" >> \o Section("  Methods:", sv.methods)
    \o Section("  API Endpoints:", sv.api_endpoints)

format_type_info(types) ==
  (IF types.interfaces = <<>> THEN <<>>
   ELSE << "  Interfaces:" >> \o
        Flatten([ i \in DOMAIN types.interfaces |->
                    << "    - interface" >> \o
                    [ j \in DOMAIN types.interfaces[i].properties |-> "      - prop" ] ]))
  \o Section("  Type Aliases:", types.types)
  \o Section("  Enums:", types.enums)

format_navigation_info(navigation) ==
  [ i \in DOMAIN navigation |-> "  Route:" ]

\* grouped by type: one header per distinct type, one line per pattern
format_state_management_info(sm) ==
  LET kinds == { sm[i].type : i \in DOMAIN sm }
  IN  [ i \in 1..(Cardinality(kinds) + Len(sm)) |-> "  state:" ]

\* format_file_summary returns [raised, lines].  The .json branch parses the
\* file again and calls json_data.keys(), which only a dict has.
format_file_summary(f, file_info) ==
  IF f.ext = "tsx"
  THEN
    LET shown == SubSeq(file_info.imports, 1,
                        IF Len(file_info.imports) > 5 THEN 5 ELSE Len(file_info.imports))
        imp == IF file_info.imports = <<>> THEN <<>>
               ELSE << "# Imports:" >> \o [ i \in DOMAIN shown |-> "# import" ]
                    \o (IF Len(file_info.imports) > 5 THEN << "# ... more" >> ELSE <<>>)
                    \o << "" >>
        cmp == IF file_info.components = <<>> THEN <<>>
               ELSE << "# Components:" >> \o Flatten([ i \in DOMAIN file_info.components |->
                                 format_component_info(file_info.components[i]) \o << "" >> ])
        hks == IF file_info.hooks = <<>> THEN <<>>
               ELSE << "# Hooks:" >> \o Flatten([ i \in DOMAIN file_info.hooks |->
                                 format_hook_info(file_info.hooks[i]) \o << "" >> ])
        svc == IF file_info.services = <<>> THEN <<>>
               ELSE << "# Services:" >> \o Flatten([ i \in DOMAIN file_info.services |->
                                 format_service_info(file_info.services[i]) \o << "" >> ])
        typ == IF file_info.types.interfaces = <<>> /\ file_info.types.types = <<>>
                  /\ file_info.types.enums = <<>> THEN <<>>
               ELSE << "# Type Definitions:" >> \o format_type_info(file_info.types) \o << "" >>
        nav == IF file_info.navigation = <<>> THEN <<>>
               ELSE << "# Navigation:" >> \o format_navigation_info(file_info.navigation) \o << "" >>
        stm == IF file_info.state_management = <<>> THEN <<>>
               ELSE << "# State Management:" >>
                    \o format_state_management_info(file_info.state_management) \o << "" >>
    IN  [ raised |-> FALSE, lines |-> imp \o cmp \o hks \o svc \o typ \o nav \o stm ]
  ELSE
    LET body == Body(f.content)
    IN  IF body.json = "malformed"
        THEN [ raised |-> FALSE, lines |-> << "# Invalid JSON file", "" >> ]
        ELSE IF body.json = "dict"
        THEN [ raised |-> FALSE,
               lines |-> << "# JSON Structure:", "# Top-level keys:" >>
                         \o [ i \in DOMAIN body.json_keys |-> "#   key" ] \o << "" >> ]
        ELSE [ raised |-> TRUE, lines |-> <<>> ]

\* -------------------------------------------------------------- hierarchy
\* hierarchy[parent].append(component) unless it is already there
AddChild(hier, parent, child) ==
  IF parent \in DOMAIN hier
  THEN IF child \in Range(hier[parent]) THEN hier
       ELSE DictSet(hier, parent, Append(hier[parent], child))
  ELSE DictSet(hier, parent, << child >>)

RECURSIVE AddChildren(_, _, _)
AddChildren(hier, parents, child) ==
  IF parents = <<>> THEN hier
  ELSE AddChildren(AddChild(hier, Head(parents).name, child), Tail(parents), child)

\* the "for component in imported_components" loop of one file: every
\* imported name that is used as a tag runs extract_react_component again
RECURSIVE HierarchyUses(_, _, _, _, _, _)
HierarchyUses(ix, hier, body, file_path, config, used) ==
  IF used = <<>> THEN [ ix |-> ix, hier |-> hier ]
  ELSE LET r == extract_react_component(ix, body, file_path, config)
       IN  HierarchyUses(r.ix, AddChildren(hier, r.ret, Head(used)),
                         body, file_path, config, Tail(used))

RECURSIVE HierarchyFiles(_, _, _, _, _)
HierarchyFiles(ix, hier, fs, k, config) ==
  IF k > Len(fs) THEN [ raised |-> FALSE, ret |-> hier, ix |-> ix ]
  ELSE IF ~fs[k].readable THEN [ raised |-> TRUE, ret |-> hier, ix |-> ix ]
  ELSE
    LET body == Body(fs[k].content)
        imported == Flatten([ i \in DOMAIN body.imports |->
                                IF body.imports[i].kind = "named"
                                THEN body.imports[i].names ELSE <<>> ])
        used == SelectSeq(imported, LAMBDA c : c \in body.tags)
        r == HierarchyUses(ix, hier, body, fs[k].rel_path, config, used)
    IN  HierarchyFiles(r.ix, r.hier, fs, k + 1, config)

\* build_component_hierarchy returns [raised, ret, ix]: it opens every file
\* of self.files with no try/except
build_component_hierarchy(ix, fs, config) ==
  HierarchyFiles(ix, <<>>, fs, 1, config)

\* --------------------------------------------------------------- renderer
\* sorted(.., key=complexity, reverse=True): stable, highest first
RECURSIVE InsertByComplexity(_, _)
InsertByComplexity(sorted, c) ==
  IF sorted = <<>> THEN << c >>
  ELSE IF Head(sorted).complexity >= c.complexity
       THEN << Head(sorted) >> \o InsertByComplexity(Tail(sorted), c)
       ELSE << c >> \o sorted

RECURSIVE SortByComplexity(_)
SortByComplexity(cs) ==
  IF cs = <<>> THEN <<>>
  ELSE InsertByComplexity(SortByComplexity(SubSeq(cs, 1, Len(cs) - 1)), cs[Len(cs)])

TopN(s, n) == SubSeq(s, 1, IF Len(s) > n THEN n ELSE Len(s))

ComponentRows == 20

\* sorted(by_source.items(), ..)[:20] in the text report, [:10] in the outline
ModuleRowsText == 20

ModuleRowsMarkdown == 10

\* the five interfaces with the most properties
InterfaceRows == 5

\* endpoints[:10] and routes[:10] of each group of the text report
GroupRows == 10

\* endpoints[:3] of each method in the outline
SampleRows == 3

\* the choices of --format
Formats == {"text", "json", "markdown", "html"}

\* the values datetime.datetime.now() is taken to return to a run
Clock == {1, 2}

Min(a, b) == IF a <= b THEN a ELSE b

\* one section of a report: its heading, the size of its backing collection,
\* the number of entries written and the count the "... and N more" line
\* prints (0: there is no such line)
Sect(heading, backing, limit, marks) ==
  [ heading |-> heading, backing |-> backing, shown |-> Min(backing, limit),
    marker |-> IF marks /\ backing > limit THEN backing - limit ELSE 0 ]

\* a section that writes every entry of its collection
Whole(heading, backing) == Sect(heading, backing, backing, FALSE)

\* "if self.<collection>:" around a section
IfAny(backing, section) == IF backing = 0 THEN <<>> ELSE << section >>

\* by_source: the modules that import-dependency facts name as their source
Sources(ix) ==
  { ix.import_dependencies[i].source : i \in DOMAIN ix.import_dependencies }

\* the entries of a list of facts whose field has the value
CountWith(facts, field, value) ==
  Cardinality({ i \in DOMAIN facts : facts[i][field] = value })

\* the request methods, in sorted order
Methods == << "DELETE", "GET", "PATCH", "POST", "PUT" >>

\* the kinds of navigator, in the order the recognizer looks for them
RouteKinds == << "Stack", "Tab", "Drawer" >>

\* one sub-section per key that has entries
Grouped(keys, facts, field, suffix, limit, marks) ==
  LET present == SelectSeq(keys, LAMBDA k : CountWith(facts, field, k) > 0)
  IN  [ i \in DOMAIN present |->
          Sect(present[i] \o suffix, CountWith(facts, field, present[i]),
               limit, marks) ]

NoReport ==
  [ format |-> "none", generated_on |-> 0, total_files |-> 0, components |-> <<>>,
    hierarchy |-> <<>>, sections |-> <<>> ]

\* generate_text_output: the header names the time and len(self.files),
\* every section stands under "if self.<collection>:"
generate_text_output(ix, fs, summaries, now) ==
  [ format |-> "text", generated_on |-> now, total_files |-> Len(fs),
    hierarchy |-> <<>>,
    components |-> TopN(SortByComplexity(ix.component_complexity), ComponentRows),
    sections |->
      IfAny(Len(ix.component_complexity),
            Sect("COMPONENT COMPLEXITY", Len(ix.component_complexity),
                 ComponentRows, FALSE))
      \o IfAny(Len(ix.hooks), Whole("CUSTOM HOOKS", Len(ix.hooks)))
      \o IfAny(Len(ix.services), Whole("SERVICES", Len(ix.services)))
      \o IfAny(Len(ix.api_endpoints), Whole("API ENDPOINTS", Len(ix.api_endpoints)))
      \o IfAny(Len(ix.navigation_routes),
               Whole("NAVIGATION ROUTES", Len(ix.navigation_routes)))
      \o IfAny(Len(ix.state_management),
               Whole("STATE MANAGEMENT", Len(ix.state_management)))
      \o IfAny(Len(ix.database_schemas),
               Whole("DATABASE SCHEMAS", Len(ix.database_schemas)))
      \o IfAny(Len(ix.import_dependencies),
               Sect("MODULE DEPENDENCIES", Cardinality(Sources(ix)),
                    ModuleRowsText, FALSE))
      \o IfAny(Len(ix.complex_types),
               Sect("TYPE SYSTEM ANALYSIS", Len(ix.complex_types),
                    InterfaceRows, FALSE))
      \o (IF ix.enhanced_api_endpoints = <<>> THEN <<>>
          ELSE << Whole("ENHANCED API DOCUMENTATION",
                        Len(ix.enhanced_api_endpoints)) >>
               \o Grouped(Methods, ix.enhanced_api_endpoints, "method",
                          " Endpoints", GroupRows, TRUE))
      \o IfAny(Len(ix.hook_usages_analysis),
               Whole("ENHANCED HOOK ANALYSIS", Len(ix.hook_usages_analysis)))
      \o (IF ix.enhanced_navigation = <<>> THEN <<>>
          ELSE << Whole("ENHANCED NAVIGATION ROUTES",
                        Len(ix.enhanced_navigation)) >>
               \o Grouped(RouteKinds, ix.enhanced_navigation, "type",
                          " Routes", GroupRows, TRUE))
      \o IfAny(Len(summaries), Whole("FILE SUMMARIES", Len(summaries))) ]

\* generate_json_output: json.dumps of a dict with seven keys; h is what
\* build_component_hierarchy returned and left of the index
generate_json_output(h) ==
  [ format |-> "json", generated_on |-> 0, total_files |-> 0,
    hierarchy |-> h.ret,
    components |-> h.ix.component_complexity,
    sections |->
      << Whole("components", Len(h.ix.component_complexity)),
         Whole("hooks", Len(h.ix.hooks)),
         Whole("services", Len(h.ix.services)),
         Whole("api_endpoints", Len(h.ix.api_endpoints)),
         Whole("interfaces", Cardinality(DOMAIN h.ix.interfaces)),
         Whole("navigation_routes", Len(h.ix.navigation_routes)),
         Whole("component_hierarchy", Cardinality(DOMAIN h.ret)) >> ]

\* generate_markdown_output: the first five headings are appended without a
\* test of their collection
generate_markdown_output(h, now) ==
  [ format |-> "markdown", generated_on |-> now, total_files |-> 0,
    hierarchy |-> h.ret,
    components |-> TopN(SortByComplexity(h.ix.component_complexity), ComponentRows),
    sections |->
      << Whole("Component Hierarchy", Cardinality(DOMAIN h.ret)),
         Sect("Complex Components", Len(h.ix.component_complexity),
              ComponentRows, FALSE),
         Whole("Custom Hooks", Len(h.ix.hooks)),
         Whole("Navigation Routes", Len(h.ix.navigation_routes)),
         Whole("API Endpoints", Len(h.ix.api_endpoints)) >>
      \o IfAny(Len(h.ix.database_schemas),
               Whole("Database Schemas", Len(h.ix.database_schemas)))
      \o IfAny(Len(h.ix.import_dependencies),
               Sect("Module Dependencies", Cardinality(Sources(h.ix)),
                    ModuleRowsMarkdown, FALSE))
      \o IfAny(Len(h.ix.complex_types),
               Sect("Type System Analysis", Len(h.ix.complex_types),
                    InterfaceRows, FALSE))
      \o (IF h.ix.enhanced_api_endpoints = <<>> THEN <<>>
          ELSE << Whole("Enhanced API Documentation",
                        Len(h.ix.enhanced_api_endpoints)) >>
               \o Grouped(Methods, h.ix.enhanced_api_endpoints, "method",
                          " Endpoints (showing top 3)", SampleRows, FALSE)) ]

\* a renderer that builds the hierarchy first: an unreadable file leaves it
\* with the exception of open()
AfterHierarchy(h, rendered) ==
  IF h.raised
  THEN [ raised |-> TRUE, cause |-> "bad_file", ix |-> h.ix, ret |-> NoReport ]
  ELSE [ raised |-> FALSE, cause |-> "none", ix |-> h.ix, ret |-> rendered ]

\* generate_output returns [raised, cause, ret, ix].  There is no
\* generate_html_output method, so "html" raises AttributeError; a selector
\* outside the four raises ValueError.
generate_output(ix, fs, summaries, config, format, now) ==
  IF format = "text"
  THEN [ raised |-> FALSE, cause |-> "none", ix |-> ix,
         ret |-> generate_text_output(ix, fs, summaries, now) ]
  ELSE IF format = "json"
  THEN AfterHierarchy(build_component_hierarchy(ix, fs, config),
                      generate_json_output(build_component_hierarchy(ix, fs, config)))
  ELSE IF format = "markdown"
  THEN AfterHierarchy(build_component_hierarchy(ix, fs, config),
                      generate_markdown_output(
                        build_component_hierarchy(ix, fs, config), now))
  ELSE IF format = "html"
  THEN [ raised |-> TRUE, cause |-> "no_renderer", ix |-> ix, ret |-> NoReport ]
  ELSE [ raised |-> TRUE, cause |-> "format", ix |-> ix, ret |-> NoReport ]

\* ------------------------------------------------------------------ state
VARIABLES
  tree,            \* what collect_files finds, in the order os.walk yields it
  config,          \* self.config: max_lines and the analysis switches
  files,           \* self.files
  index,           \* the Project Index: the global collections of self
  file_summaries,  \* self.file_summaries
  total_lines,     \* self.total_lines
  pc,              \* "parsing", "collecting", "extracting", "rendering" or "done"
  pos,             \* position of the for loop in self.files (1-based)
  processed_count,
  excluded_count,
  error_count,
  stop_reason,     \* how the loop ended: "none", "limit", "budget", "exhausted"
  abort,           \* why no report was written: "none", "usage", "collect",
                   \* "bad_file", "no_renderer", "destination", "interrupt"
  report,          \* the rendered report handed to the writer
  input,           \* the arguments of a text helper called on its own
  output           \* what that call returned

vars == << tree, config, files, index, file_summaries, total_lines, pc, pos,
           processed_count, excluded_count, error_count, stop_reason, abort,
           report, input, output >>

\* no text helper is called on its own during a run of extract_context
NoCall == [ fn |-> "none" ]

\* the orders in which os.walk is taken to yield n files: ascending or
\* descending by relative path
Orders(n) == { [ i \in 1..n |-> i ], [ i \in 1..n |-> n + 1 - i ] }

\* the flagged-issue passes are switched on together or not at all
Configs ==
  { [ max_lines |-> m, analyze_performance |-> a, analyze_react_native |-> a ]
    : m \in MaxLinesChoices, a \in BOOLEAN }

\* the file trees tried: up to MaxFiles files of any kind, with distinct
\* relative paths, found in any order
Trees ==
  UNION { { [ i \in 1..n |-> [ rel_path |-> p[i], ext |-> kinds[i].ext,
                               readable |-> kinds[i].readable,
                               content |-> kinds[i].content ] ]
            : kinds \in [1..n -> FileKinds], p \in Orders(n) }
          : n \in 0..MaxFiles }

\* a project of many components: up to MaxBulk files like Alpha.tsx, then at
\* most one more file of any kind or one of the synthetic declarations
MaxBulk == 21

\* the line budgets of the large projects; 15000 is DEFAULT_CONFIG["max_lines"]
BulkMaxLines == {30, 15000}

BulkConfigs ==
  { [ max_lines |-> m, analyze_performance |-> a, analyze_react_native |-> a ]
    : m \in BulkMaxLines, a \in BOOLEAN }

BulkKind == [ext |-> "tsx", readable |-> TRUE, content |-> "alpha"]

DeclKinds ==
  { [ext |-> "tsx", readable |-> TRUE, content |-> c] : c \in DeclContents }

BulkTails == { <<>> } \cup { << k >> : k \in FileKinds \cup DeclKinds }

BulkTrees ==
  UNION { { [ i \in 1..(n + Len(tail)) |->
               LET kind == IF i <= n THEN BulkKind ELSE tail[1]
               IN  [ rel_path |-> p[i], ext |-> kind.ext,
                     readable |-> kind.readable, content |-> kind.content ] ]
            : p \in Orders(n + Len(tail)) }
          : n \in 0..MaxBulk, tail \in BulkTails }

\* self.files.sort(key=lambda x: x[1])
RECURSIVE InsertByPath(_, _)
InsertByPath(sorted, f) ==
  IF sorted = <<>> THEN << f >>
  ELSE IF Head(sorted).rel_path <= f.rel_path
       THEN << Head(sorted) >> \o InsertByPath(Tail(sorted), f)
       ELSE << f >> \o sorted

\* the list left in the order collect_files returned it
SortByRelPath_AsCollected(fs) == fs

RECURSIVE SortByRelPath(_)
SortByRelPath(fs) ==
  IF fs = <<>> THEN <<>>
  ELSE InsertByPath(SortByRelPath(SubSeq(fs, 1, Len(fs) - 1)), fs[Len(fs)])

Init ==
  /\ tree \in Trees
  /\ config \in Configs
  /\ files = <<>>
  /\ index = EmptyIndex
  /\ file_summaries = <<>>
  /\ total_lines = 0
  /\ pc = "parsing"
  /\ pos = 1
  /\ processed_count = 0
  /\ excluded_count = 0
  /\ error_count = 0
  /\ stop_reason = "none"
  /\ abort = "none"
  /\ report = NoReport
  /\ input = NoCall
  /\ output = NoCall

\* ---------------------------------------------------------------- actions
\* main: parser.parse_args() accepts the command line, the extractor is
\* constructed and extract_context is entered
ParseArgs ==
  /\ pc = "parsing"
  /\ pc' = "collecting"
  /\ UNCHANGED << input, output, tree, config, files, index, file_summaries, total_lines, pos,
                  processed_count, excluded_count, error_count, stop_reason,
                  abort, report >>

\* main: parser.parse_args() rejects the command line (a --format outside the
\* choices, a --max-lines that is no integer): usage message, SystemExit(2)
ArgparseRejects ==
  /\ pc = "parsing"
  /\ pc' = "done"
  /\ abort' = "usage"
  /\ UNCHANGED << input, output, tree, config, files, index, file_summaries, total_lines, pos,
                  processed_count, excluded_count, error_count, stop_reason,
                  report >>

\* collect_files succeeds: the list is stored and sorted by relative path
Collect ==
  /\ pc = "collecting"
  /\ files' = SortByRelPath(tree)
  /\ pc' = "extracting"
  /\ UNCHANGED << input, output, tree, config, index, file_summaries, total_lines, pos,
                  processed_count, excluded_count, error_count, stop_reason,
                  abort, report >>

\* collect_files raises (os.walk / os.path.getsize): extract_context returns
CollectFails ==
  /\ pc = "collecting"
  /\ pc' = "done"
  /\ abort' = "collect"
  /\ UNCHANGED << input, output, tree, config, files, index, file_summaries, total_lines, pos,
                  processed_count, excluded_count, error_count, stop_reason,
                  report >>

InLoop == pc = "extracting" /\ pos <= Len(files)

\* if self.total_lines >= self.config["max_lines"]: break
AtLimit(total, max_lines) == total >= max_lines

\* the budget test without the three header and separator lines
OverBudget_NoOverhead(total, n, max_lines) == total + n > max_lines

\* if self.total_lines + len(summary_lines) + 3 > self.config["max_lines"]: break
OverBudget(total, n, max_lines) == total + n + 3 > max_lines

\* the running total without the three lines of a file's header
AddLines_NoOverhead(total, n) == total + n

\* self.total_lines += len(summary_lines) + 3
AddLines(total, n) == total + n + 3

StopAtLimit ==
  /\ InLoop
  /\ AtLimit(total_lines, config.max_lines)
  /\ pc' = "rendering"
  /\ stop_reason' = "limit"
  /\ UNCHANGED << input, output, tree, config, files, index, file_summaries, total_lines, pos,
                  processed_count, excluded_count, error_count, abort, report >>

\* the per-file handler leaving the loop instead of going on to the next file
ProcessRaises_EndsLoop ==
  /\ InLoop
  /\ ~AtLimit(total_lines, config.max_lines)
  /\ LET r == process_file(index, files[pos], config)
     IN  /\ r.raised
         /\ index' = r.ix
  /\ error_count' = error_count + 1
  /\ pc' = "rendering"
  /\ UNCHANGED << input, output, tree, config, files, file_summaries, total_lines, pos,
                  processed_count, excluded_count, stop_reason, abort, report >>

\* process_file raises before processed_count is touched
ProcessRaises ==
  /\ InLoop
  /\ ~AtLimit(total_lines, config.max_lines)
  /\ LET r == process_file(index, files[pos], config)
     IN  /\ r.raised
         /\ index' = r.ix
  /\ error_count' = error_count + 1
  /\ pos' = pos + 1
  /\ UNCHANGED << input, output, tree, config, files, file_summaries, total_lines, pc,
                  processed_count, excluded_count, stop_reason, abort, report >>

\* format_file_summary raises after processed_count += 1
SummaryRaises ==
  /\ InLoop
  /\ ~AtLimit(total_lines, config.max_lines)
  /\ LET r == process_file(index, files[pos], config)
     IN  /\ ~r.raised
         /\ format_file_summary(files[pos], r.ret).raised
         /\ index' = r.ix
  /\ processed_count' = processed_count + 1
  /\ error_count' = error_count + 1
  /\ pos' = pos + 1
  /\ UNCHANGED << input, output, tree, config, files, file_summaries, total_lines, pc,
                  excluded_count, stop_reason, abort, report >>

\* if not summary_lines: excluded_count += 1; continue
ExcludeEmpty ==
  /\ InLoop
  /\ ~AtLimit(total_lines, config.max_lines)
  /\ LET r == process_file(index, files[pos], config)
         s == format_file_summary(files[pos], r.ret)
     IN  /\ ~r.raised
         /\ ~s.raised
         /\ s.lines = <<>>
         /\ index' = r.ix
  /\ processed_count' = processed_count + 1
  /\ excluded_count' = excluded_count + 1
  /\ pos' = pos + 1
  /\ UNCHANGED << input, output, tree, config, files, file_summaries, total_lines, pc,
                  error_count, stop_reason, abort, report >>

\* the file was processed, its summary does not fit: break
StopOverBudget ==
  /\ InLoop
  /\ ~AtLimit(total_lines, config.max_lines)
  /\ LET r == process_file(index, files[pos], config)
         s == format_file_summary(files[pos], r.ret)
     IN  /\ ~r.raised
         /\ ~s.raised
         /\ s.lines # <<>>
         /\ OverBudget(total_lines, Len(s.lines), config.max_lines)
         /\ index' = r.ix
  /\ processed_count' = processed_count + 1
  /\ pc' = "rendering"
  /\ stop_reason' = "budget"
  /\ UNCHANGED << input, output, tree, config, files, file_summaries, total_lines, pos,
                  excluded_count, error_count, abort, report >>

AppendSummary ==
  /\ InLoop
  /\ ~AtLimit(total_lines, config.max_lines)
  /\ LET r == process_file(index, files[pos], config)
         s == format_file_summary(files[pos], r.ret)
     IN  /\ ~r.raised
         /\ ~s.raised
         /\ s.lines # <<>>
         /\ ~OverBudget(total_lines, Len(s.lines), config.max_lines)
         /\ index' = r.ix
         /\ file_summaries' =
              Append(file_summaries, [ path |-> files[pos].rel_path, lines |-> s.lines ])
         /\ total_lines' = AddLines(total_lines, Len(s.lines))
  /\ processed_count' = processed_count + 1
  /\ pos' = pos + 1
  /\ UNCHANGED << input, output, tree, config, files, pc, excluded_count, error_count,
                  stop_reason, abort, report >>

\* KeyboardInterrupt during the loop: it is no Exception, so neither handler
\* of extract_context catches it; main prints "Extraction stopped by user."
\* and returns.  The file in progress may or may not have reached the index.
Interrupt ==
  /\ InLoop
  /\ ~AtLimit(total_lines, config.max_lines)
  /\ \E in_progress \in BOOLEAN :
       index' = IF in_progress THEN process_file(index, files[pos], config).ix
                ELSE index
  /\ pc' = "done"
  /\ abort' = "interrupt"
  /\ UNCHANGED << input, output, tree, config, files, file_summaries, total_lines, pos,
                  processed_count, excluded_count, error_count, stop_reason,
                  report >>

\* the for loop runs out of files
LoopExhausted ==
  /\ pc = "extracting"
  /\ pos > Len(files)
  /\ pc' = "rendering"
  /\ stop_reason' = "exhausted"
  /\ UNCHANGED << input, output, tree, config, files, index, file_summaries, total_lines, pos,
                  processed_count, excluded_count, error_count, abort, report >>

\* a coordinator that stays in Rendering after the report is written
RenderWritten_StaysRendering ==
  /\ pc = "rendering"
  /\ \E format \in Formats, now \in Clock :
       LET g == generate_output(index, files, file_summaries, config, format, now)
       IN  /\ ~g.raised
           /\ index' = g.ix
           /\ report' = g.ret
  /\ pc' = "rendering"
  /\ UNCHANGED << input, output, tree, config, files, file_summaries, total_lines, pos,
                  processed_count, excluded_count, error_count, stop_reason,
                  abort >>

\* generate_output returns and the report is written to the destination
RenderWritten ==
  /\ pc = "rendering"
  /\ \E format \in Formats, now \in Clock :
       LET g == generate_output(index, files, file_summaries, config, format, now)
       IN  /\ ~g.raised
           /\ index' = g.ix
           /\ report' = g.ret
  /\ pc' = "done"
  /\ UNCHANGED << input, output, tree, config, files, file_summaries, total_lines, pos,
                  processed_count, excluded_count, error_count, stop_reason,
                  abort >>

\* generate_output raises: "Error writing to output file" is printed and
\* nothing is written
RenderRaises ==
  /\ pc = "rendering"
  /\ \E format \in Formats, now \in Clock :
       LET g == generate_output(index, files, file_summaries, config, format, now)
       IN  /\ g.raised
           /\ index' = g.ix
           /\ abort' = g.cause
  /\ pc' = "done"
  /\ UNCHANGED << input, output, tree, config, files, file_summaries, total_lines, pos,
                  processed_count, excluded_count, error_count, stop_reason,
                  report >>

\* generate_output returns, open(output_file, 'w') or write raises
WriteFails ==
  /\ pc = "rendering"
  /\ \E format \in Formats, now \in Clock :
       LET g == generate_output(index, files, file_summaries, config, format, now)
       IN  /\ ~g.raised
           /\ index' = g.ix
  /\ abort' = "destination"
  /\ pc' = "done"
  /\ UNCHANGED << input, output, tree, config, files, file_summaries, total_lines, pos,
                  processed_count, excluded_count, error_count, stop_reason,
                  report >>

Next ==
  \/ ParseArgs
  \/ ArgparseRejects
  \/ Collect
  \/ CollectFails
  \/ StopAtLimit
  \/ ProcessRaises
  \/ SummaryRaises
  \/ ExcludeEmpty
  \/ StopOverBudget
  \/ AppendSummary
  \/ Interrupt
  \/ LoopExhausted
  \/ RenderWritten
  \/ RenderRaises
  \/ WriteFails

Spec == Init /\ [][Next]_vars

\* the same program started on a large project
BulkInit ==
  /\ tree \in BulkTrees
  /\ config \in BulkConfigs
  /\ files = <<>>
  /\ index = EmptyIndex
  /\ file_summaries = <<>>
  /\ total_lines = 0
  /\ pc = "parsing"
  /\ pos = 1
  /\ processed_count = 0
  /\ excluded_count = 0
  /\ error_count = 0
  /\ stop_reason = "none"
  /\ abort = "none"
  /\ report = NoReport
  /\ input = NoCall
  /\ output = NoCall

BulkSpec == BulkInit /\ [][Next]_vars

TypeOK ==
  /\ pc \in {"parsing", "collecting", "extracting", "rendering", "done"}
  /\ stop_reason \in {"none", "limit", "budget", "exhausted"}
  /\ abort \in {"none", "usage", "collect", "bad_file", "no_renderer",
                "destination", "interrupt"}
  /\ pos \in 1..(Len(files) + 1)
  /\ processed_count \in Nat /\ excluded_count \in Nat /\ error_count \in Nat
  /\ total_lines \in Nat

\* ------------------------------------------------- vocabulary of the claims
\* the summary a file yields when it is processed on its own: empty when
\* process_file or format_file_summary raises
SummaryOf(f) ==
  LET r == process_file(EmptyIndex, f, config)
      s == format_file_summary(f, r.ret)
  IN  IF r.raised \/ s.raised THEN <<>> ELSE s.lines

\* relative paths that have an entry in file_summaries
SummaryPaths == { file_summaries[i].path : i \in DOMAIN file_summaries }

\* number of summary lines of the first i files
RECURSIVE CumLen(_)
CumLen(i) == IF i = 0 THEN 0 ELSE CumLen(i - 1) + Len(SummaryOf(files[i]))

\* reportable lines of the first i files: len(summary) + 3 for a file with a
\* summary, nothing for a file without one
RECURSIVE CumCost(_)
CumCost(i) ==
  IF i = 0 THEN 0
  ELSE CumCost(i - 1) +
       (IF SummaryOf(files[i]) = <<>> THEN 0 ELSE Len(SummaryOf(files[i])) + 3)

\* facts of the global lists that name file_path as their file
FactsFrom(file_path) ==
  { << L, i >> \in GlobalLists \X (1..(4 * (MaxFiles + 1))) :
      /\ i \in DOMAIN index[L]
      /\ "file_path" \in DOMAIN index[L][i]
      /\ index[L][i].file_path = file_path }

IsPrefix(a, b) == Len(a) <= Len(b) /\ SubSeq(b, 1, Len(a)) = a

\* a per-file recoverable failure: open() fails, or a .json file does not parse
IsRecoverableFailure(f) ==
  ~f.readable \/ (f.ext = "json" /\ Body(f.content).json = "malformed")

\* ------------------------------------------------------------------ claims

\* C1 as stated: if i is the first file index at which the cumulative summary
\* length exceeds max_lines, then when Rendering starts file_summaries holds
\* a summary for exactly the files before i.
C1_Original ==
  pc = "rendering" =>
    \A i \in 1..Len(files) :
      (CumLen(i) > config.max_lines /\ \A j \in 1..(i - 1) : CumLen(j) <= config.max_lines)
        => SummaryPaths = { files[j].rel_path : j \in 1..(i - 1) }

\* C1 amended: with every file that has a non-empty summary costing
\* len(summary) + 3 reportable lines (and a file without summary costing
\* nothing), if i is the first file index at which the cumulative cost
\* exceeds max_lines, then when Rendering starts file_summaries holds an entry
\* for exactly the files before i that have a non-empty summary, and for no
\* file at index i or beyond.
C1_LineBudgetTermination ==
  pc = "rendering" =>
    \A i \in 1..Len(files) :
      (CumCost(i) > config.max_lines /\ \A j \in 1..(i - 1) : CumCost(j) <= config.max_lines)
        => SummaryPaths =
             { files[j].rel_path : j \in { k \in 1..(i - 1) : SummaryOf(files[k]) # <<>> } }

\* C1 witness: Rendering starts after the budget stopped the loop at the
\* third file, with the first two files summarised
C1_Witness ==
  /\ pc = "rendering"
  /\ stop_reason = "budget"
  /\ pos = 3
  /\ Len(file_summaries) = 2
  /\ CumCost(3) > config.max_lines

\* C2 as stated: the file at which the budget stops the loop is skipped
\* entirely: it has no entry in file_summaries and no fact recognized in it is
\* in a global list of the Project Index.
C2_SkippedFileLeavesNoFacts ==
  stop_reason = "budget" =>
    /\ files[pos].rel_path \notin SummaryPaths
    /\ FactsFrom(files[pos].rel_path) = {}

\* C3 as stated: at the end of extract_context processed_count +
\* excluded_count + error_count equals the number of collected files.
C3_CountsPartitionFiles ==
  (pc \in {"rendering", "done"} /\ abort \notin {"usage", "collect", "interrupt"}) =>
    processed_count + excluded_count + error_count = Len(files)

C5_BadFileNeverAbortsRun ==
  pc = "done" => abort # "bad_file"

\* C6 as stated: every file the loop has passed that is unreadable or is
\* malformed JSON is counted in error_count and has no entry in
\* file_summaries.
C6_FailuresCountedAndSkipped ==
  pc # "collecting" =>
    LET failed == { j \in 1..(pos - 1) : j <= Len(files) /\ IsRecoverableFailure(files[j]) }
    IN  /\ \A j \in failed : files[j].rel_path \notin SummaryPaths
        /\ error_count >= Cardinality(failed)

\* C7 as stated: the Project Index is append-only: every step keeps every
\* stored fact, in the lists and under every key of the dicts.
C7_AppendOnly ==
  [][ /\ \A L \in GlobalLists : IsPrefix(index[L], index'[L])
      /\ \A D \in {"hook_usages", "api_calls"} :
           \A k \in DOMAIN index[D] :
             k \in DOMAIN index'[D] /\ index[D][k] \subseteq index'[D][k]
      /\ \A D \in {"component_props", "interfaces"} :
           \A k \in DOMAIN index[D] :
             k \in DOMAIN index'[D] /\ index'[D][k] = index[D][k] ]_vars

\* C8 as stated: every fact in a global list of the Project Index carries
\* the path of the file it was found in, and that path is one of the files.
C8_EveryFactCarriesItsFile ==
  \A L \in GlobalLists :
    \A i \in DOMAIN index[L] :
      /\ "file_path" \in DOMAIN index[L][i]
      /\ index[L][i].file_path \in { files[j].rel_path : j \in DOMAIN files }

\* C9 as stated: a recognizer invocation on the file the loop is at leaves
\* every collection of the Project Index unchanged.
C9_RecognizersHaveNoSideEffects ==
  (InLoop /\ files[pos].readable /\ files[pos].ext = "tsx") =>
    LET body == Body(files[pos].content)
        path == files[pos].rel_path
    IN  /\ extract_react_component(index, body, path, config).ix = index
        /\ extract_hooks(index, body, path).ix = index
        /\ extract_services(index, body, path).ix = index
        /\ extract_types(index, body, path).ix = index
        /\ extract_navigation(index, body, path).ix = index
        /\ extract_state_management(index, body, path).ix = index

\* C10 as stated: build_component_hierarchy leaves every collection of the
\* Project Index as it was, so the complex-components list is the same after
\* a hierarchy build as before it.
C10_HierarchyBuildIsPure ==
  pc = "rendering" =>
    LET h == build_component_hierarchy(index, files, config)
    IN  /\ h.ix = index
        /\ h.ix.component_complexity = index.component_complexity

\* the source files a recognizer can be run on
SourceFiles == { j \in DOMAIN files : files[j].readable /\ files[j].ext = "tsx" }

\* two invocations returned the same fact list
SameFacts(first, second) == first.ret = second.ret

C12_TruncationIsMarked ==
  (pc = "done" /\ abort = "none") =>
    \A i \in DOMAIN report.sections :
      report.sections[i].backing > report.sections[i].shown =>
        report.sections[i].marker = report.sections[i].backing - report.sections[i].shown

\* C13 as stated: every section of the report that was written has a
\* non-empty backing collection, so a report rendered from an empty Project
\* Index has no section.
C13_SectionsOnlyWhenBacked ==
  (pc = "done" /\ abort = "none") =>
    \A i \in DOMAIN report.sections : report.sections[i].backing > 0

\* the number of facts a report gives for one kind of fact: the size of the
\* backing collection of the section that one of the headings names, 0 when
\* the report has no such section
FactCount(rep, headings) ==
  SeqSum([ i \in DOMAIN rep.sections |->
             IF rep.sections[i].heading \in headings
             THEN rep.sections[i].backing ELSE 0 ])

\* the headings under which the encodings report complex components, hooks,
\* API endpoints and routes
CountedKinds ==
  { {"COMPONENT COMPLEXITY", "Complex Components", "components"},
    {"CUSTOM HOOKS", "Custom Hooks", "hooks"},
    {"API ENDPOINTS", "API Endpoints", "api_endpoints"},
    {"NAVIGATION ROUTES", "Navigation Routes", "navigation_routes"} }

\* C14 as stated: when Rendering starts, any two encodings that render the
\* Project Index of the run report the same number of complex components, of
\* hooks, of API endpoints and of routes.
C14_FormatsAgreeOnCounts ==
  pc = "rendering" =>
    \A f1, f2 \in Formats :
      (/\ ~generate_output(index, files, file_summaries, config, f1, 1).raised
       /\ ~generate_output(index, files, file_summaries, config, f2, 1).raised)
      => \A kind \in CountedKinds :
           FactCount(generate_output(index, files, file_summaries, config, f1, 1).ret, kind)
           = FactCount(generate_output(index, files, file_summaries, config, f2, 1).ret, kind)

\* selectors outside the four that the command line admits
OtherSelectors == {"xml", "yaml"}

\* C15 as stated: generate_output renders each of the selectors text, json,
\* markdown and html (it raises for none of them on account of the selector),
\* and raises the unsupported-format error for any other selector.
C15_FourSelectorsSupported ==
  pc = "rendering" =>
    /\ \A f \in Formats :
         generate_output(index, files, file_summaries, config, f, 1).cause
           \notin {"no_renderer", "format"}
    /\ \A f \in OtherSelectors :
         /\ generate_output(index, files, file_summaries, config, f, 1).raised
         /\ generate_output(index, files, file_summaries, config, f, 1).cause = "format"

\* C16 as stated: rendering the same Project Index with the same selector
\* twice gives identical reports, whatever the time of the two renderings.
C16_RenderingIsDeterministic ==
  pc = "rendering" =>
    \A f \in Formats : \A n1, n2 \in Clock :
      generate_output(index, files, file_summaries, config, f, n1).ret
      = generate_output(index, files, file_summaries, config, f, n2).ret

\* main: the exit status of the process once the run is over. parse_args
\* leaves with SystemExit(2); extract_context catches every Exception itself
\* and returns, and main catches KeyboardInterrupt and returns, so every other
\* end of the run is a normal return of main
ExitStatus == IF abort = "usage" THEN 2 ELSE 0

\* C17 as stated: a run whose configuration is in error (the command line is
\* rejected for its format selector, or max_lines is negative and nothing
\* else goes wrong) ends with no file processed, no fact appended to the
\* Project Index, and a non-zero exit status.
C17_ConfigErrorsFailFast ==
  (pc = "done" /\ (abort = "usage" \/ (config.max_lines < 0 /\ abort = "none"))) =>
    /\ processed_count = 0
    /\ index = EmptyIndex
    /\ ExitStatus # 0

\* C18 as stated: a run that cannot write its output destination ends with a
\* non-zero exit status (exit status 0 is kept for normal completion).
C18_UnwritableDestinationExitsNonZero ==
  (pc = "done" /\ abort = "destination") => ExitStatus # 0

\* C19 as stated: a run stopped by a user interrupt during the extraction
\* loop dispatches no further file and ends with a report rendered and
\* written from the files accumulated so far.
C19_InterruptLeavesPartialReport ==
  (pc = "done" /\ abort = "interrupt") => report # NoReport

\* the score of the stated formula: distinct hook usages, plus call sites,
\* plus conditional markers
DistinctUsageScore(body) ==
  Cardinality(Range(body.hook_tokens)) + Len(body.api_tokens) + body.cond_markers

\* C20 as stated: for every source file of the run, each declaration that
\* extract_react_component finds in it gets the complexity (distinct hook
\* usages + call sites + conditional markers), and the call appends the
\* declaration to component_complexity if and only if that score exceeds 10.
C20_ComplexityIsDistinctScore ==
  \A j \in SourceFiles :
    \A i \in DOMAIN extract_react_component(index, Body(files[j].content),
                                            files[j].rel_path, config).ret :
      /\ extract_react_component(index, Body(files[j].content),
                                 files[j].rel_path, config).ret[i].complexity
         = DistinctUsageScore(Body(files[j].content))
      /\ (DistinctUsageScore(Body(files[j].content)) > ComplexityThreshold)
         <=> (Len(extract_react_component(index, Body(files[j].content),
                                          files[j].rel_path, config).ix.component_complexity)
              > Len(index.component_complexity))

\* ------------------------------------------------------------ text helpers
\* A text is a sequence of characters (or of whole words where no helper
\* looks inside a word); offsets are counted from 0 as in the source.

\* the texts of length at most n over an alphabet
RECURSIVE TextsUpTo(_, _)
TextsUpTo(alphabet, n) ==
  IF n = 0 THEN { <<>> }
  ELSE TextsUpTo(alphabet, n - 1)
       \cup { Append(t, c) : t \in { u \in TextsUpTo(alphabet, n - 1) : Len(u) = n - 1 },
                             c \in alphabet }

\* content[a:b]
Slice(content, a, b) == SubSeq(content, a + 1, b)

\* content.find(ch, start) for start >= 0
RECURSIVE Find(_, _, _)
Find(content, ch, start) ==
  IF start >= Len(content) THEN -1
  ELSE IF content[start + 1] = ch THEN start
  ELSE Find(content, ch, start + 1)

\* the scan that counts closing braces only
BraceCount_IgnoresNesting(brace_count, ch) ==
  IF ch = "}" THEN brace_count - 1 ELSE brace_count

\* brace_count after the character at pos has been read
BraceCount(brace_count, ch) ==
  IF ch = "{" THEN brace_count + 1
  ELSE IF ch = "}" THEN brace_count - 1
  ELSE brace_count

\* while pos < len(content) and brace_count > 0: ...; pos += 1
RECURSIVE BraceScan(_, _, _)
BraceScan(content, at, brace_count) ==
  IF at < Len(content) /\ brace_count > 0
  THEN BraceScan(content, at + 1, BraceCount(brace_count, content[at + 1]))
  ELSE [ pos |-> at, brace_count |-> brace_count ]

\* the two returns after the scan
BodyFrom(content, brace_pos, scan) ==
  IF scan.brace_count = 0 THEN Slice(content, brace_pos, scan.pos)
  ELSE Slice(content, brace_pos, Len(content))

extract_function_body(content, start_pos) ==
  IF Find(content, "{", start_pos) = -1 THEN <<>>
  ELSE BodyFrom(content, Find(content, "{", start_pos),
                BraceScan(content, Find(content, "{", start_pos) + 1, 1))

\* tok in text
Has(text, tok) == \E i \in DOMAIN text : text[i] = tok

\* text.startswith(tok)
StartsWith(text, tok) == text # <<>> /\ text[1] = tok

\* categorize_type on a definition given as its sequence of tokens
categorize_type(type_definition) ==
  IF Has(type_definition, "|") THEN "union"
  ELSE IF Has(type_definition, "&") THEN "intersection"
  ELSE IF StartsWith(type_definition, "Record<")
          \/ StartsWith(type_definition, "Partial<") THEN "utility"
  ELSE IF StartsWith(type_definition, "{") /\ Has(type_definition, "=>") THEN "function"
  ELSE IF StartsWith(type_definition, "[") /\ Has(type_definition, "]") THEN "tuple"
  ELSE IF Has(type_definition, "{") /\ Has(type_definition, "}") THEN "object"
  ELSE "basic"

\* text.lstrip() / text.rstrip() / text.strip(): blanks are the character " "
RECURSIVE LStrip(_)
LStrip(text) ==
  IF text # <<>> /\ Head(text) = " " THEN LStrip(Tail(text)) ELSE text

RECURSIVE RStripOf(_, _)
RStripOf(text, ch) ==
  IF text # <<>> /\ text[Len(text)] = ch
  THEN RStripOf(SubSeq(text, 1, Len(text) - 1), ch) ELSE text

Strip(text) == LStrip(RStripOf(text, " "))

\* the splitter that does not track parentheses
ParenCount_Flat(paren_count, char) == paren_count

\* paren_count after a character of columns_def has been read
ParenCount(paren_count, char) ==
  IF char = "(" THEN paren_count + 1
  ELSE IF char = ")" THEN paren_count - 1
  ELSE paren_count

\* one iteration of "for char in columns_def"
SplitChar(column_lines, current_line, paren_count, char) ==
  IF char = "," /\ paren_count = 0
  THEN [ column_lines |-> Append(column_lines,
                                 RStripOf(Strip(Append(current_line, char)), ",")),
         current_line |-> <<>>,
         paren_count |-> paren_count ]
  ELSE [ column_lines |-> column_lines,
         current_line |-> Append(current_line, char),
         paren_count |-> ParenCount(paren_count, char) ]

RECURSIVE SplitLoop(_, _)
SplitLoop(acc, rest) ==
  IF rest = <<>> THEN acc
  ELSE SplitLoop(SplitChar(acc.column_lines, acc.current_line, acc.paren_count,
                           Head(rest)),
                 Tail(rest))

\* if current_line.strip(): column_lines.append(current_line.strip())
SplitRest(acc) ==
  IF Strip(acc.current_line) # <<>>
  THEN Append(acc.column_lines, Strip(acc.current_line))
  ELSE acc.column_lines

\* the column_lines of a columns_def
SplitColumns(columns_def) ==
  SplitRest(SplitLoop([ column_lines |-> <<>>, current_line |-> <<>>,
                        paren_count |-> 0 ], columns_def))

\* ------------------------------------------------ the CREATE TABLE parser
\* A statement is a sequence of words, blanks " " and the characters "(",
\* ")" and ","; every string the parser returns is the sequence of its words.

\* first offset (from 1) at or after i that holds no blank
RECURSIVE SkipBlanks(_, _)
SkipBlanks(text, i) ==
  IF i <= Len(text) /\ text[i] = " " THEN SkipBlanks(text, i + 1) ELSE i

\* a word character run: [`"\w]+
IsWord(tok) == tok \notin {" ", "(", ")", ","}

\* matching a pattern at offset i: the offset after the match, 0 for none.
\* Items: a literal word, "\s+", "\s*" and "\w+"
RECURSIVE MatchAt(_, _, _)
MatchAt(text, pattern, i) ==
  IF i = 0 \/ pattern = <<>> THEN i
  ELSE IF Head(pattern) = "\\s*"
       THEN MatchAt(text, Tail(pattern), SkipBlanks(text, i))
  ELSE IF Head(pattern) = "\\s+"
       THEN IF i <= Len(text) /\ text[i] = " "
            THEN MatchAt(text, Tail(pattern), SkipBlanks(text, i)) ELSE 0
  ELSE IF Head(pattern) = "\\w+"
       THEN IF i <= Len(text) /\ IsWord(text[i])
            THEN MatchAt(text, Tail(pattern), i + 1) ELSE 0
  ELSE IF i <= Len(text) /\ text[i] = Head(pattern)
       THEN MatchAt(text, Tail(pattern), i + 1) ELSE 0

\* re.search: the first offset at which the pattern matches, 0 for none
RECURSIVE SearchFrom(_, _, _)
SearchFrom(text, pattern, i) ==
  IF i > Len(text) THEN 0
  ELSE IF MatchAt(text, pattern, i) # 0 THEN i
  ELSE SearchFrom(text, pattern, i + 1)

\* offset of the first tok at or after i, 0 for none
RECURSIVE IndexOf(_, _, _)
IndexOf(text, tok, i) ==
  IF i > Len(text) THEN 0
  ELSE IF text[i] = tok THEN i
  ELSE IndexOf(text, tok, i + 1)

\* offset of the last tok, 0 for none
RECURSIVE LastIndexOf(_, _, _)
LastIndexOf(text, tok, i) ==
  IF i < 1 THEN 0
  ELSE IF text[i] = tok THEN i
  ELSE LastIndexOf(text, tok, i - 1)

\* pat in text
ContainsSeq(text, pat) ==
  \E i \in 1..(Len(text) - Len(pat) + 1) : SubSeq(text, i, i + Len(pat) - 1) = pat

\* text.split(sep)
RECURSIVE SplitOn(_, _)
SplitOn(text, sep) ==
  IF IndexOf(text, sep, 1) = 0 THEN << text >>
  ELSE << SubSeq(text, 1, IndexOf(text, sep, 1) - 1) >>
       \o SplitOn(SubSeq(text, IndexOf(text, sep, 1) + 1, Len(text)), sep)

\* text.split(): the runs of characters between blanks
SplitBlanks(text) ==
  SelectSeq(SplitOn(text, " "), LAMBDA part : part # <<>>)

\* the head of table_pattern, with and without IF NOT EXISTS, up to the name
CreateTableIfNotExists ==
  << "CREATE", "\\s+", "TABLE", "\\s+", "IF", "\\s+", "NOT", "\\s+", "EXISTS",
     "\\s+", "\\w+" >>
CreateTable == << "CREATE", "\\s+", "TABLE", "\\s+", "\\w+" >>

\* offset after the table name, 0 when the statement is no CREATE TABLE
AfterTableName(statement) ==
  IF MatchAt(statement, CreateTableIfNotExists, 1) # 0
  THEN MatchAt(statement, CreateTableIfNotExists, 1)
  ELSE MatchAt(statement, CreateTable, 1)

\* the group ([^)]+) opened by the "(" at offset open: empty when it is not one
ParenGroup(text, open) ==
  IF open = 0 \/ open > Len(text) \/ text[open] # "(" \/ IndexOf(text, ")", open) <= open + 1
  THEN <<>>
  ELSE SubSeq(text, open + 1, IndexOf(text, ")", open) - 1)

\* re.match(r'^\s*(?:CONSTRAINT|PRIMARY\s+KEY|FOREIGN\s+KEY|UNIQUE|CHECK)', line)
IsConstraintLine(line) ==
  \/ MatchAt(line, << "\\s*", "CONSTRAINT" >>, 1) # 0
  \/ MatchAt(line, << "\\s*", "PRIMARY", "\\s+", "KEY" >>, 1) # 0
  \/ MatchAt(line, << "\\s*", "FOREIGN", "\\s+", "KEY" >>, 1) # 0
  \/ MatchAt(line, << "\\s*", "UNIQUE" >>, 1) # 0
  \/ MatchAt(line, << "\\s*", "CHECK" >>, 1) # 0

\* PRIMARY\s+KEY\s*\(([^)]+)\) found in a constraint line: the key columns
ConstraintPrimaryKeys(line) ==
  IF SearchFrom(line, << "PRIMARY", "\\s+", "KEY", "\\s*", "(" >>, 1) = 0 THEN <<>>
  ELSE IF ParenGroup(line, MatchAt(line, << "PRIMARY", "\\s+", "KEY", "\\s*" >>,
                       SearchFrom(line, << "PRIMARY", "\\s+", "KEY", "\\s*", "(" >>, 1))) = <<>>
       THEN <<>>
  ELSE SplitOn(ParenGroup(line, MatchAt(line, << "PRIMARY", "\\s+", "KEY", "\\s*" >>,
                 SearchFrom(line, << "PRIMARY", "\\s+", "KEY", "\\s*", "(" >>, 1))), ",")

\* one foreign_keys entry per key column; a key column beyond the referenced
\* columns takes the last of them
ForeignKeyFacts(fk_cols, ref_table, ref_cols) ==
  [ i \in DOMAIN fk_cols |->
      [ column |-> fk_cols[i], ref_table |-> ref_table,
        ref_column |-> IF i <= Len(ref_cols) THEN ref_cols[i]
                       ELSE ref_cols[Len(ref_cols)] ] ]

\* \s*REFERENCES\s*(\w+)\s*\(([^)]+)\) after the key columns
ForeignKeyRef(line, fk_group, after) ==
  IF ParenGroup(line, MatchAt(line, << "\\s*", "REFERENCES", "\\s*", "\\w+", "\\s*" >>,
                              after)) = <<>>
  THEN <<>>
  ELSE ForeignKeyFacts(
         SplitOn(fk_group, ","),
         << line[MatchAt(line, << "\\s*", "REFERENCES", "\\s*", "\\w+" >>, after) - 1] >>,
         SplitOn(ParenGroup(line, MatchAt(line, << "\\s*", "REFERENCES", "\\s*",
                                                   "\\w+", "\\s*" >>, after)), ","))

\* FOREIGN\s+KEY\s*\(([^)]+)\) with its "(" at offset open
ForeignKeyAt(line, open) ==
  IF ParenGroup(line, open) = <<>> THEN <<>>
  ELSE ForeignKeyRef(line, ParenGroup(line, open), IndexOf(line, ")", open) + 1)

\* the foreign keys a constraint line declares
ConstraintForeignKeys(line) ==
  IF SearchFrom(line, << "FOREIGN", "\\s+", "KEY", "\\s*", "(" >>, 1) = 0 THEN <<>>
  ELSE ForeignKeyAt(line, MatchAt(line, << "FOREIGN", "\\s+", "KEY", "\\s*" >>,
                      SearchFrom(line, << "FOREIGN", "\\s+", "KEY", "\\s*", "(" >>, 1)))

\* column['nullable']: False only when the line says NOT NULL
Nullable(line) == ~ContainsSeq(line, << "NOT", " ", "NULL" >>)

\* the column record of a regular column line with at least two parts
ColumnOf(line, parts) ==
  IF SearchFrom(line, << "DEFAULT", "\\s+" >>, 1) # 0
     /\ MatchAt(line, << "DEFAULT", "\\s+" >>,
                SearchFrom(line, << "DEFAULT", "\\s+" >>, 1)) <= Len(line)
     /\ line[MatchAt(line, << "DEFAULT", "\\s+" >>,
                     SearchFrom(line, << "DEFAULT", "\\s+" >>, 1))] # ","
  THEN [ name |-> parts[1], type |-> SplitOn(parts[2], "(")[1],
         nullable |-> Nullable(line),
         default |-> << line[MatchAt(line, << "DEFAULT", "\\s+" >>,
                                     SearchFrom(line, << "DEFAULT", "\\s+" >>, 1))] >> ]
  ELSE [ name |-> parts[1], type |-> SplitOn(parts[2], "(")[1],
         nullable |-> Nullable(line) ]

\* one iteration of "for line in column_lines"
SchemaLine(acc, line) ==
  IF IsConstraintLine(line)
  THEN [ acc EXCEPT !.primary_keys = @ \o ConstraintPrimaryKeys(line),
                    !.foreign_keys = @ \o ConstraintForeignKeys(line) ]
  ELSE IF Len(SplitBlanks(line)) < 2 THEN acc
  ELSE [ acc EXCEPT
           !.columns = Append(@, ColumnOf(line, SplitBlanks(line))),
           !.primary_keys = IF ContainsSeq(line, << "PRIMARY", " ", "KEY" >>)
                            THEN Append(@, SplitBlanks(line)[1]) ELSE @ ]

RECURSIVE SchemaLines(_, _)
SchemaLines(acc, column_lines) ==
  IF column_lines = <<>> THEN acc
  ELSE SchemaLines(SchemaLine(acc, Head(column_lines)), Tail(column_lines))

\* the schema entry of one table_pattern match
SchemaEntry(table_name, columns_def, file_path) ==
  SchemaLines([ table_name |-> table_name, columns |-> <<>>,
                primary_keys |-> <<>>, foreign_keys |-> <<>>,
                indices |-> <<>>, description |-> "None",
                file_path |-> file_path ],
              SplitColumns(columns_def))

\* extract_database_schema on a text holding at most one CREATE TABLE
\* statement, no CREATE INDEX statement and no template variable
ParseCreateTable(statement, file_path) ==
  IF \/ AfterTableName(statement) = 0
     \/ SkipBlanks(statement, AfterTableName(statement)) > Len(statement)
     \/ statement[SkipBlanks(statement, AfterTableName(statement))] # "("
     \/ LastIndexOf(statement, ")", Len(statement))
          <= SkipBlanks(statement, AfterTableName(statement)) + 1
  THEN [ schemas |-> <<>> ]
  ELSE [ schemas |->
           << SchemaEntry(<< statement[AfterTableName(statement) - 1] >>,
                          Strip(SubSeq(statement,
                                       SkipBlanks(statement, AfterTableName(statement)) + 1,
                                       LastIndexOf(statement, ")", Len(statement)) - 1)),
                          file_path) >> ]

\* ----------------------------------------- the text helpers on their own
\* longest text handed to extract_function_body
MaxText == 5

\* longest type definition, in tokens, handed to categorize_type
MaxTypeLen == 3

\* longest column body, in characters, handed to the splitter
MaxBody == 5

BraceAlphabet == {"{", "}", "a"}

TypeTokens ==
  {"|", "&", "Record<", "Partial<", "{", "}", "[", "]", "=>", "()", "A"}

BodyAlphabet == {",", "(", ")", " ", "a"}

\* sep.join(lines)
RECURSIVE Join(_, _)
Join(lines, sep) ==
  IF lines = <<>> THEN <<>>
  ELSE IF Len(lines) = 1 THEN lines[1]
  ELSE lines[1] \o sep \o Join(Tail(lines), sep)

\* the column and constraint lines the statements are made of
IdLines ==
  { << "id", " ", "TEXT", " ", "PRIMARY", " ", "KEY" >>,
    << "id", " ", "TEXT", " ", "NOT", " ", "NULL", " ", "PRIMARY", " ", "KEY" >>,
    << "id", " ", "TEXT" >> }

OrgLines ==
  { << "orgId", " ", "TEXT", " ", "NOT", " ", "NULL" >>,
    << "orgId", " ", "TEXT" >> }

ConstraintLines ==
  { << "FOREIGN", " ", "KEY", " ", "(", "orgId", ")", " ", "REFERENCES", " ",
       "Orgs", "(", "id", ")" >>,
    << "PRIMARY", " ", "KEY", " ", "(", "id", ")" >> }

LineLists ==
  { << a, b >> : a \in IdLines, b \in OrgLines }
  \cup { << a, b, c >> : a \in IdLines, b \in OrgLines, c \in ConstraintLines }

TableHeads ==
  { << "CREATE", " ", "TABLE", " ", "IF", " ", "NOT", " ", "EXISTS", " ",
       "Users", " ", "(" >>,
    << "CREATE", " ", "TABLE", " ", "Users", "(" >> }

Statements ==
  { head \o Join(lines, << ",", " " >>) \o << ")" >>
    : head \in TableHeads, lines \in LineLists }

\* the calls tried: the helper, its text and its start offset
Calls ==
  { [ fn |-> "extract_function_body", text |-> t, start_pos |-> s ]
    : t \in TextsUpTo(BraceAlphabet, MaxText), s \in 0..MaxText }
  \cup { [ fn |-> "categorize_type", text |-> t, start_pos |-> 0 ]
         : t \in TextsUpTo(TypeTokens, MaxTypeLen) }
  \cup { [ fn |-> "split_columns", text |-> t, start_pos |-> 0 ]
         : t \in { u \in TextsUpTo(BodyAlphabet, MaxBody) : Strip(u) = u } }
  \cup { [ fn |-> "extract_database_schema", text |-> t, start_pos |-> 0 ]
         : t \in Statements }

TextInit ==
  /\ input \in Calls
  /\ output = NoCall
  /\ tree = <<>>
  /\ config = [ max_lines |-> 15000, analyze_performance |-> FALSE,
                analyze_react_native |-> FALSE ]
  /\ files = <<>>
  /\ index = EmptyIndex
  /\ file_summaries = <<>>
  /\ total_lines = 0
  /\ pc = "parsing"
  /\ pos = 1
  /\ processed_count = 0
  /\ excluded_count = 0
  /\ error_count = 0
  /\ stop_reason = "none"
  /\ abort = "none"
  /\ report = NoReport

\* the variables of a run of extract_context, which no text helper touches
run_vars == << tree, config, files, index, file_summaries, total_lines, pc, pos,
               processed_count, excluded_count, error_count, stop_reason,
               abort, report >>

CallExtractFunctionBody ==
  /\ input.fn = "extract_function_body" /\ output = NoCall
  /\ output' = [ fn |-> input.fn,
                 ret |-> extract_function_body(input.text, input.start_pos) ]
  /\ UNCHANGED << input, run_vars >>

CallCategorizeType ==
  /\ input.fn = "categorize_type" /\ output = NoCall
  /\ output' = [ fn |-> input.fn, ret |-> categorize_type(input.text) ]
  /\ UNCHANGED << input, run_vars >>

CallSplitColumns ==
  /\ input.fn = "split_columns" /\ output = NoCall
  /\ output' = [ fn |-> input.fn, ret |-> SplitColumns(input.text) ]
  /\ UNCHANGED << input, run_vars >>

CallExtractDatabaseSchema ==
  /\ input.fn = "extract_database_schema" /\ output = NoCall
  /\ output' = [ fn |-> input.fn, ret |-> ParseCreateTable(input.text, "db.ts") ]
  /\ UNCHANGED << input, run_vars >>

TextNext ==
  \/ CallExtractFunctionBody
  \/ CallCategorizeType
  \/ CallSplitColumns
  \/ CallExtractDatabaseSchema

TextSpec == TextInit /\ [][TextNext]_vars

\* the helper fn has returned
Returned(fn) == output # NoCall /\ output.fn = fn

\* CREATE TABLE IF NOT EXISTS Users (id TEXT PRIMARY KEY, orgId TEXT NOT NULL,
\* FOREIGN KEY (orgId) REFERENCES Orgs(id))
UsersStatement ==
  << "CREATE", " ", "TABLE", " ", "IF", " ", "NOT", " ", "EXISTS", " ",
     "Users", " ", "(" >>
  \o Join(<< << "id", " ", "TEXT", " ", "PRIMARY", " ", "KEY" >>,
             << "orgId", " ", "TEXT", " ", "NOT", " ", "NULL" >>,
             << "FOREIGN", " ", "KEY", " ", "(", "orgId", ")", " ", "REFERENCES",
                " ", "Orgs", "(", "id", ")" >> >>,
          << ",", " " >>)
  \o << ")" >>

\* C21 as stated: for the Users statement the schema recognizer reports one
\* table Users whose columns are exactly id (TEXT, not nullable, being the
\* primary key) and orgId (TEXT, not nullable), whose primary keys are [id]
\* and whose only foreign key is orgId -> Orgs.id.
C21_UsersSchemaRoundTrip ==
  (Returned("extract_database_schema") /\ input.text = UsersStatement) =>
    /\ Len(output.ret.schemas) = 1
    /\ output.ret.schemas[1].table_name = << "Users" >>
    /\ output.ret.schemas[1].columns
       = << [ name |-> << "id" >>, type |-> << "TEXT" >>, nullable |-> FALSE ],
            [ name |-> << "orgId" >>, type |-> << "TEXT" >>, nullable |-> FALSE ] >>
    /\ output.ret.schemas[1].primary_keys = << << "id" >> >>
    /\ output.ret.schemas[1].foreign_keys
       = << [ column |-> << "orgId" >>, ref_table |-> << "Orgs" >>,
              ref_column |-> << "id" >> ] >>

\* C22: whatever order collection returned the files in, the entries of
\* file_summaries are in strictly increasing order of relative path (so no
\* file has two entries), and the loop walks self.files in that order.
C22_SummariesInPathOrder ==
  /\ \A i, k \in DOMAIN file_summaries :
       i < k => file_summaries[i].path < file_summaries[k].path
  /\ pc \in {"extracting", "rendering"} =>
       \A i, k \in DOMAIN files : i < k => files[i].rel_path < files[k].rel_path

\* a finished run that found its files in descending order and summarised
\* two of them
C22_Witness ==
  /\ pc = "done"
  /\ Len(file_summaries) >= 2
  /\ Len(tree) >= 2 /\ tree[1].rel_path > tree[2].rel_path

\* the steps between the states of the run coordinator that the order
\* Collecting, Extracting, Rendering allows
OrderedSteps ==
  { << "parsing", "collecting" >>, << "parsing", "done" >>,
    << "collecting", "extracting" >>, << "collecting", "done" >>,
    << "extracting", "rendering" >>, << "extracting", "done" >>,
    << "rendering", "done" >> }

SummaryBlockLines(file_info) == 1 + Len(file_info.lines) + 3

\* the lines of all the per-file blocks of the FILE SUMMARIES section
FileSummaryLines(summaries) ==
  SeqSum([ i \in DOMAIN summaries |-> SummaryBlockLines(summaries[i]) ])

\* C24 as stated: in a run that wrote a text report, the lines the renderer
\* emitted for the file summaries are at most total_lines, and so at most
\* max_lines when max_lines >= 0.
C24_ReportWithinBudget ==
  (pc = "done" /\ report.format = "text") =>
    /\ FileSummaryLines(file_summaries) <= total_lines
    /\ config.max_lines >= 0 => FileSummaryLines(file_summaries) <= config.max_lines

\* offsets (from 0) of the opening braces at or after start_pos
OpenBraces(text, start_pos) ==
  { p \in start_pos..(Len(text) - 1) : text[p + 1] = "{" }

\* least element of a non-empty set of numbers
Least(S) == CHOOSE x \in S : \A y \in S : x <= y

\* nesting depth after the character at offset e, counted from offset b:
\* opening braces minus closing braces in b..e
Depth(text, b, e) ==
  Cardinality({ p \in b..e : text[p + 1] = "{" })
  - Cardinality({ p \in b..e : text[p + 1] = "}" })

\* offsets at which the depth counted from b is zero
Closers(text, b) == { e \in b..(Len(text) - 1) : Depth(text, b, e) = 0 }

\* the scoped body the statement describes
ScopedBody(text, start_pos) ==
  IF OpenBraces(text, start_pos) = {} THEN <<>>
  ELSE IF Closers(text, Least(OpenBraces(text, start_pos))) = {}
       THEN Slice(text, Least(OpenBraces(text, start_pos)), Len(text))
  ELSE Slice(text, Least(OpenBraces(text, start_pos)),
             Least(Closers(text, Least(OpenBraces(text, start_pos)))) + 1)

\* C25: for any text and start offset, extract_function_body returns the
\* text from the first "{" at or after the offset through the "}" at which
\* the nesting depth first returns to zero, the text from that "{" to the
\* end when the depth never returns to zero, and the empty text when there
\* is no "{".
C25_ScopedBodyIsBalanced ==
  Returned("extract_function_body") =>
    output.ret = ScopedBody(input.text, input.start_pos)

\* a call whose body holds a nested pair of braces and stops before the end
\* of the text
C25_Witness ==
  /\ Returned("extract_function_body")
  /\ Len(output.ret) >= 4 /\ Len(output.ret) < Len(input.text)
  /\ output.ret[Len(output.ret)] = "}"
  /\ \E i \in 2..(Len(output.ret) - 1) : output.ret[i] = "{"

\* parenthesis depth in front of the character at offset i (from 1): the
\* "(" before it minus the ")" before it
ParenDepth(body, i) ==
  Cardinality({ j \in 1..(i - 1) : body[j] = "(" })
  - Cardinality({ j \in 1..(i - 1) : body[j] = ")" })

\* offsets of the commas at depth 0
DepthZeroCommas(body) ==
  { i \in DOMAIN body : body[i] = "," /\ ParenDepth(body, i) = 0 }

\* the characters of a text that are no comma
NonComma(text) == SelectSeq(text, LAMBDA c : c # ",")

\* C26 as stated: the segments, put together in order, hold every non-comma
\* character of the body.
C26_Original ==
  Returned("split_columns") => NonComma(Flatten(output.ret)) = NonComma(input.text)

\* the stretches of the body between consecutive depth-0 commas from offset
\* from on: each without its leading blanks, the last also without its
\* trailing blanks and left out when nothing else is in it
RECURSIVE StretchesFrom(_, _)
StretchesFrom(body, from) ==
  IF { c \in DepthZeroCommas(body) : c >= from } = {}
  THEN IF Strip(SubSeq(body, from, Len(body))) = <<>> THEN <<>>
       ELSE << Strip(SubSeq(body, from, Len(body))) >>
  ELSE << LStrip(SubSeq(body, from,
                        Least({ c \in DepthZeroCommas(body) : c >= from }) - 1)) >>
       \o StretchesFrom(body, Least({ c \in DepthZeroCommas(body) : c >= from }) + 1)

\* C26, amended: the body is split at exactly the commas at parenthesis
\* depth 0 (a comma inside a parenthesised list never splits, balanced or
\* not), and the segments are in order the stretches between those commas
\* with the blanks around them trimmed: they hold every character of the
\* body but the depth-0 commas and the trimmed blanks.
C26_SplitAtDepthZeroCommas ==
  Returned("split_columns") => output.ret = StretchesFrom(input.text, 1)

\* a body split in two at a depth-0 comma, with a comma kept inside the
\* parentheses of the first segment
C26_Witness ==
  /\ Returned("split_columns")
  /\ Len(output.ret) = 2
  /\ Has(output.ret[1], ",")
  /\ output.ret[2] # <<>>

\* the discriminating tokens of the seven categories, in priority order; a
\* function-shaped definition is one with an arrow
CategoryOrder ==
  << "union", "intersection", "utility", "function", "tuple", "object", "basic" >>

Satisfies(type_definition, category) ==
  CASE category = "union"        -> Has(type_definition, "|")
    [] category = "intersection" -> Has(type_definition, "&")
    [] category = "utility"      -> \/ StartsWith(type_definition, "Record<")
                                    \/ StartsWith(type_definition, "Partial<")
    [] category = "function"     -> Has(type_definition, "=>")
    [] category = "tuple"        -> /\ StartsWith(type_definition, "[")
                                    /\ Has(type_definition, "]")
    [] category = "object"       -> /\ Has(type_definition, "{")
                                    /\ Has(type_definition, "}")
    [] OTHER                     -> TRUE

\* the category of the first satisfied predicate
FirstSatisfied(type_definition) ==
  CategoryOrder[Least({ i \in DOMAIN CategoryOrder :
                          Satisfies(type_definition, CategoryOrder[i]) })]

\* C27 as stated: categorize_type returns the category of the first
\* satisfied predicate in the order union, intersection, utility-generic,
\* function-shaped, tuple-shaped, object-shaped, basic; in particular a
\* function-shaped definition without "|" or "&" that is no utility generic
\* is categorised as function.
C27_FirstCategoryInPriorityOrder ==
  Returned("categorize_type") => output.ret = FirstSatisfied(input.text)

\* C28: throughout the run total_lines is the sum over the entries of
\* file_summaries of (summary lines + 3), and with max_lines >= 0 it never
\* exceeds max_lines; a step of the loop at a file whose summary is empty
\* changes neither total_lines nor file_summaries and goes on to the next
\* file.
C28_TotalLinesAccounting ==
  /\ [](/\ total_lines
           = SeqSum([ i \in DOMAIN file_summaries |-> Len(file_summaries[i].lines) + 3 ])
        /\ config.max_lines >= 0 => total_lines <= config.max_lines)
  /\ [][ (/\ InLoop
          /\ ~AtLimit(total_lines, config.max_lines)
          /\ SummaryOf(files[pos]) = <<>>
          /\ abort' # "interrupt")
         => /\ total_lines' = total_lines
            /\ file_summaries' = file_summaries
            /\ pc' = "extracting"
            /\ pos' = pos + 1 ]_vars

\* a finished run in which a file with an empty summary came before a file
\* that got an entry
C28_Witness ==
  /\ pc = "done"
  /\ excluded_count >= 1
  /\ \E i, k \in DOMAIN files :
       /\ i < k
       /\ files[i].readable /\ SummaryOf(files[i]) = <<>>
       /\ files[k].rel_path \in SummaryPaths

\* C29 as stated: the "Total files processed" figure in the header of a
\* written text report is the number of files the loop processed.
C29_HeaderCountsProcessedFiles ==
  (pc = "done" /\ report.format = "text") => report.total_files = processed_count

\* positions of the files the loop never reached: from the file at which the
\* limit test broke the loop, or after the file at which the budget test did
NeverReached ==
  { j \in DOMAIN files : \/ stop_reason = "limit" /\ j >= pos
                         \/ stop_reason = "budget" /\ j > pos }

\* names of the components declared in a file
DeclaredIn(f) ==
  IF f.ext = "tsx" /\ f.readable
  THEN { Body(f.content).components[i].name : i \in DOMAIN Body(f.content).components }
  ELSE {}

\* C30 as stated: in a run that wrote its report, every parent name of the
\* hierarchy is declared in a file the loop reached, and a file it never
\* reached has no fact in the Project Index.
C30_HierarchyOnlyFromProcessedFiles ==
  (pc = "done" /\ abort = "none") =>
    /\ \A parent \in DOMAIN report.hierarchy :
         \E j \in (DOMAIN files) \ NeverReached : parent \in DeclaredIn(files[j])
    /\ \A j \in NeverReached : FactsFrom(files[j].rel_path) = {}

====
